---- MODULE Spec2Model ----
(***************************************************************************)
(* Model of src/handler.py: the RunPod serverless handler for Chatterbox   *)
(* TTS.  The process-wide state is MODEL (the engine handle) and           *)
(* VOICE_CACHE (url -> scratch-file path); the engine itself holds one     *)
(* slot of prepared voice conditioning (self.conds).  A request walks      *)
(* through handler() step by step; every call to an external capability    *)
(* (model loading, HTTP fetch, prepare_conditionals, generate, encoding)    *)
(* either returns or raises, chosen nondeterministically.                  *)
(*                                                                         *)
(* Strings the code inspects (text, urls, content types, output formats)   *)
(* are sequences of one-character strings, so that lower(), split("?"),    *)
(* endswith() and "in" are computed rather than assumed.  Floats are       *)
(* counted in tenths (0.5 is 5).                                           *)
(***************************************************************************)
EXTENDS Integers, Sequences, FiniteSets, TLC

\* ------------------------------------------------------------------ bounds
MaxJobs == 3        \* requests dispatched to the worker process
MaxConcurrentJobs == 2   \* requests dispatched to a host that runs two at once

\* --------------------------------------------------------- string helpers
UpperChars == <<"A","B","C","D","E","F","G","H","I","J","K","L","M",
                "N","O","P","Q","R","S","T","U","V","W","X","Y","Z">>
LowerChars == <<"a","b","c","d","e","f","g","h","i","j","k","l","m",
                "n","o","p","q","r","s","t","u","v","w","x","y","z">>

\* str.lower() on one character
LowerChar(c) ==
    IF \E i \in DOMAIN UpperChars : UpperChars[i] = c
    THEN LowerChars[CHOOSE i \in DOMAIN UpperChars : UpperChars[i] = c]
    ELSE c

\* str.lower()
Lower(s) == [i \in DOMAIN s |-> LowerChar(s[i])]

\* s.split("?")[0]: the part before the first "?"
BeforeQuery(s) ==
    IF \E i \in DOMAIN s : s[i] = "?"
    THEN SubSeq(s, 1, (CHOOSE i \in DOMAIN s :
                          s[i] = "?" /\ \A k \in 1..(i - 1) : s[k] # "?") - 1)
    ELSE s

\* s.endswith(suf)
EndsWith(s, suf) ==
    /\ Len(suf) <= Len(s)
    /\ SubSeq(s, Len(s) - Len(suf) + 1, Len(s)) = suf

\* sub in s
Contains(s, sub) ==
    \E i \in 0..(Len(s) - Len(sub)) : SubSeq(s, i + 1, i + Len(sub)) = sub

Digits == <<"0","1","2","3","4","5","6","7","8","9">>
IsDigit(c) == \E i \in DOMAIN Digits : Digits[i] = c
DigitVal(c) == (CHOOSE i \in DOMAIN Digits : Digits[i] = c) - 1

\* ------------------------------------------------------- python values
\* A JSON value of the job input: a string, a number, null, or a missing key.
Str(s) == [t |-> "str", s |-> s, n |-> 0]
Num(n) == [t |-> "num", s |-> <<>>, n |-> n]
None == [t |-> "none", s |-> <<>>, n |-> 0]
Absent == [t |-> "absent", s |-> <<>>, n |-> 0]

\* dict.get(key, default)
Get(d, key, default) == IF d[key] = Absent THEN default ELSE d[key]

\* Truthy with the empty string taken for a value (a test `is not None`)
TruthyNotNone(v) == v.t \in {"str", "num"}

\* truth value of a python object, as in `if not text` and `if audio_url`
Truthy(v) ==
    CASE v.t = "str" -> v.s # <<>>
      [] v.t = "num" -> v.n # 0
      [] OTHER -> FALSE

\* float(str) for the decimal literals d and d.d, in tenths; -1 when the
\* string is no float literal (ValueError)
ParseFloat(s) ==
    IF Len(s) = 1 /\ IsDigit(s[1]) THEN 10 * DigitVal(s[1])
    ELSE IF Len(s) = 3 /\ IsDigit(s[1]) /\ s[2] = "." /\ IsDigit(s[3])
         THEN 10 * DigitVal(s[1]) + DigitVal(s[3])
         ELSE -1

\* float(v): [ok, v] or the exception it raises
Float(v) ==
    CASE v.t = "num" -> [ok |-> TRUE, v |-> v.n, err |-> ""]
      [] v.t = "str" ->
           IF ParseFloat(v.s) >= 0
           THEN [ok |-> TRUE, v |-> ParseFloat(v.s), err |-> ""]
           ELSE [ok |-> FALSE, v |-> 0, err |-> "ValueError"]
      [] OTHER -> [ok |-> FALSE, v |-> 0, err |-> "TypeError"]

\* defaults of the request fields
DefaultExaggeration == 5
DefaultTemperature == 8
DefaultCfg == 5
DefaultFormat == <<"w","a","v">>
Mp3 == <<"m","p","3">>
Wav == <<"w","a","v">>

\* ----------------------------------------------------------- the inputs
UrlA == <<"x","/","a",".","m","p","3">>
UrlB == <<"x","/","b",".","W","A","V","?","k">>
Urls == {UrlA, UrlB}

TextValues == {Absent, Str(<<>>), Str(<<"h","i">>)}
UrlValues == {Absent, Str(UrlA), Str(UrlB)}
ExaggerationValues == {Absent, Num(7), Str(<<"l","o","u","d">>)}
TemperatureValues == {Absent, None}
CfgValues == {Absent, Str(<<"0",".","3">>)}
FormatValues == {Absent, Str(Wav), Str(<<"M","P","3">>), Str(<<"o","g","g">>)}

\* the optional tuning fields of a job input
Tuning == {"exaggeration", "temperature", "cfg", "output_format"}

\* job["input"]: every text with every audio_url, and at most one of the
\* tuning fields given
JobInputs ==
    {j \in [text : TextValues, audio_url : UrlValues,
            exaggeration : ExaggerationValues, temperature : TemperatureValues,
            cfg : CfgValues, output_format : FormatValues] :
        /\ Cardinality({k \in Tuning : j[k] # Absent}) <= 1
        /\ j.text \in {Absent, Str(<<>>)} =>
              \A k \in Tuning : j[k] = Absent}

\* what the HTTP server may answer: a status and a content-type header
\* (<<>> when the header is missing)
ContentTypes == {<<>>, <<"a","u","d","i","o","/","w","a","v">>,
                 <<"a","u","d","i","o","/","m","p","e","g">>}
HttpOk == 200
HttpNotFound == 404
Statuses == {HttpOk, HttpNotFound}

\* request slots of the process; the host framework runs one job at a time
\* (slot 1), a threaded or async host could run two
Workers == {1, 2}

NoJob == [text |-> Absent, audio_url |-> Absent, exaggeration |-> Absent,
          temperature |-> Absent, cfg |-> Absent, output_format |-> Absent]
NoResponse == [status_code |-> 0, content_type |-> <<>>]
NoPath == [id |-> 0, ext |-> <<>>]
NoWav == [voice |-> <<>>, text |-> <<>>, exaggeration |-> 0,
          temperature |-> 0, cfg_weight |-> 0]
NoResp == [none |-> TRUE]
NoPrev == [audio_url |-> Absent, trace |-> <<>>, status |-> "none"]

\* the voice ChatterboxTTS.from_pretrained leaves in self.conds
DefaultVoice == <<"b","u","i","l","t","i","n">>
NoConds == [voice |-> <<>>, exaggeration |-> 0]
\* model.sr
EngineSR == 24000

\* ------------------------------------------------------------- the state
VARIABLES
    MODEL,        \* 0 for None, else the number of the engine instance
    VOICE_CACHE,  \* function: url -> scratch-file path
    conds,        \* the engine's self.conds: the one prepared conditioning
    files,        \* scratch files on disk
    pc,           \* per request slot: where handler() stands
    job,          \* per slot: job["input"]
    response,     \* per slot: get_voice_ref's local response
    voice_path,   \* per slot: get_voice_ref's local voice_path
    wav,          \* per slot: the waveform generate() returned
    resp,         \* per slot: what handler() returned
    exc,          \* per slot: the exception that left handler(), or ""
    trace,        \* per slot: the capability calls of this request, in order
    cache0,       \* per slot: VOICE_CACHE when the request started
    prev,         \* summary of the request handled before the current one
    started,      \* requests dispatched so far
    fetchCount,   \* per url: requests.get calls
    prepCount,    \* per url: prepare_conditionals calls
    prepOk,       \* per url: prepare_conditionals calls that returned
    genCount,     \* generate calls
    loadCount     \* ChatterboxTTS.from_pretrained calls

vars == <<MODEL, VOICE_CACHE, conds, files, pc, job, response, voice_path,
          wav, resp,
          exc, trace, cache0, prev, started, fetchCount, prepCount, prepOk,
          genCount, loadCount>>

engineVars == <<MODEL, conds, loadCount>>
counterVars == <<fetchCount, prepCount, prepOk, genCount>>

\* ------------------------------------------------- handler's locals
\* lines 94, 98-102: the locals handler() derives from job["input"]
text(w) == Get(job[w], "text", Str(<<>>))
audio_url(w) == Get(job[w], "audio_url", None)
exaggeration(w) == Float(Get(job[w], "exaggeration", Num(DefaultExaggeration))).v
temperature(w) == Float(Get(job[w], "temperature", Num(DefaultTemperature))).v
cfg_weight(w) == Float(Get(job[w], "cfg", Num(DefaultCfg))).v
output_format(w) == Lower(Get(job[w], "output_format", Str(DefaultFormat)).s)

\* lines 99-102 on input j: "" when they pass, else the exception raised
ParamError(j) ==
    LET e == Float(Get(j, "exaggeration", Num(DefaultExaggeration)))
        t == Float(Get(j, "temperature", Num(DefaultTemperature)))
        c == Float(Get(j, "cfg", Num(DefaultCfg)))
        f == Get(j, "output_format", Str(DefaultFormat))
    IN  IF ~e.ok THEN e.err
        ELSE IF ~t.ok THEN t.err
        ELSE IF ~c.ok THEN c.err
        ELSE IF f.t # "str" THEN "AttributeError"
        ELSE ""

Init ==
    /\ MODEL = 0
    /\ VOICE_CACHE = [u \in {} |-> NoPath]
    /\ conds = NoConds
    /\ files = {}
    /\ pc = [w \in Workers |-> "idle"]
    /\ job = [w \in Workers |-> NoJob]
    /\ response = [w \in Workers |-> NoResponse]
    /\ voice_path = [w \in Workers |-> NoPath]
    /\ wav = [w \in Workers |-> NoWav]
    /\ resp = [w \in Workers |-> NoResp]
    /\ exc = [w \in Workers |-> ""]
    /\ trace = [w \in Workers |-> <<>>]
    /\ cache0 = [w \in Workers |-> [u \in {} |-> NoPath]]
    /\ prev = NoPrev
    /\ started = 0
    /\ fetchCount = [u \in Urls |-> 0]
    /\ prepCount = [u \in Urls |-> 0]
    /\ prepOk = [u \in Urls |-> 0]
    /\ genCount = 0
    /\ loadCount = 0

\* ------------------------------------------------------------ actions
\* what the finished request of slot w leaves in prev
Summary(w) ==
    [audio_url |-> audio_url(w), trace |-> trace[w],
     status |-> IF pc[w] = "raised" THEN "raised"
                ELSE IF "error" \in DOMAIN resp[w] THEN "error" ELSE "ok"]

\* lines 156-160: an exception raised inside the try block is caught and
\* handler returns {"error": str(e)}
Caught(w, msg) ==
    /\ resp' = [resp EXCEPT ![w] = [error |-> msg]]
    /\ pc' = [pc EXCEPT ![w] = "done"]

\* an exception raised outside the try block leaves handler()
Escapes(w, e) ==
    /\ exc' = [exc EXCEPT ![w] = e]
    /\ pc' = [pc EXCEPT ![w] = "raised"]

\* lines 92-111: the host calls handler(job); text validation and the
\* parsing of the parameters
Start(w, j) ==
    /\ pc[w] \in {"idle", "done", "raised"}
    /\ started < MaxJobs
    /\ started' = started + 1
    /\ prev' = IF pc[w] = "idle" THEN prev ELSE Summary(w)
    /\ job' = [job EXCEPT ![w] = j]
    /\ trace' = [trace EXCEPT ![w] = <<>>]
    /\ cache0' = [cache0 EXCEPT ![w] = VOICE_CACHE]
    /\ response' = [response EXCEPT ![w] = NoResponse]
    /\ voice_path' = [voice_path EXCEPT ![w] = NoPath]
    /\ wav' = [wav EXCEPT ![w] = NoWav]
    /\ IF ~Truthy(Get(j, "text", Str(<<>>)))
       THEN /\ resp' = [resp EXCEPT ![w] = [error |-> "No text provided"]]
            /\ exc' = [exc EXCEPT ![w] = ""]
            /\ pc' = [pc EXCEPT ![w] = "done"]
       ELSE /\ resp' = [resp EXCEPT ![w] = NoResp]
            /\ IF ParamError(j) # ""
               THEN Escapes(w, ParamError(j))
               ELSE /\ exc' = [exc EXCEPT ![w] = ""]
                    /\ pc' = [pc EXCEPT ![w] = "load_model"]
    /\ UNCHANGED <<VOICE_CACHE, files, engineVars, counterVars>>

\* a load_model without the `if MODEL is not None` test: every request
\* constructs the engine again
LoadModelAlways(w) ==
    /\ pc[w] = "load_model"
    /\ loadCount' = loadCount + 1
    /\ trace' = [trace EXCEPT ![w] = Append(@, "from_pretrained")]
    /\ \/ /\ MODEL' = loadCount + 1
          /\ conds' = [voice |-> DefaultVoice,
                       exaggeration |-> DefaultExaggeration]
          /\ pc' = [pc EXCEPT ![w] = "voice"]
          /\ UNCHANGED exc
       \/ /\ Escapes(w, "LoadError")
          /\ UNCHANGED <<MODEL, conds>>
    /\ UNCHANGED <<VOICE_CACHE, files, job, response, voice_path, wav, resp, cache0,
                   prev, started, counterVars>>

\* lines 33-45 and 113: load_model()
LoadModel(w) ==
    /\ pc[w] = "load_model"
    /\ IF MODEL # 0
       THEN /\ pc' = [pc EXCEPT ![w] = "voice"]
            /\ UNCHANGED <<engineVars, exc, trace>>
       ELSE /\ loadCount' = loadCount + 1
            /\ trace' = [trace EXCEPT ![w] = Append(@, "from_pretrained")]
            /\ \/ /\ MODEL' = loadCount + 1
                  /\ conds' = [voice |-> DefaultVoice,
                               exaggeration |-> DefaultExaggeration]
                  /\ pc' = [pc EXCEPT ![w] = "voice"]
                  /\ UNCHANGED exc
               \/ /\ Escapes(w, "LoadError")
                  /\ UNCHANGED <<MODEL, conds>>
    /\ UNCHANGED <<VOICE_CACHE, files, job, response, voice_path, wav, resp, cache0,
                   prev, started, counterVars>>

\* a lookup keyed on the exaggeration as well: a cached url whose
\* conditioning was prepared with another exaggeration counts as a miss
ResolveVoiceKeyedOnExaggeration(w) ==
    /\ pc[w] = "voice"
    /\ IF ~Truthy(audio_url(w))
       THEN /\ pc' = [pc EXCEPT ![w] = "generate"]
            /\ UNCHANGED trace
       ELSE IF /\ audio_url(w).s \in DOMAIN VOICE_CACHE
               /\ conds.exaggeration = exaggeration(w)
       THEN /\ pc' = [pc EXCEPT ![w] = "generate"]
            /\ trace' = [trace EXCEPT ![w] = Append(@, "hit")]
       ELSE /\ pc' = [pc EXCEPT ![w] = "fetch"]
            /\ trace' = [trace EXCEPT ![w] = Append(@, "miss")]
    /\ UNCHANGED <<VOICE_CACHE, files, engineVars, job, response, voice_path, wav,
                   resp, exc, cache0, prev, started, counterVars>>

\* lines 117-118 and 54-59: `if audio_url`, then get_voice_ref's cache lookup
ResolveVoice(w) ==
    /\ pc[w] = "voice"
    /\ IF ~Truthy(audio_url(w))
       THEN /\ pc' = [pc EXCEPT ![w] = "generate"]
            /\ UNCHANGED trace
       ELSE IF audio_url(w).s \in DOMAIN VOICE_CACHE
       THEN /\ pc' = [pc EXCEPT ![w] = "generate"]
            /\ trace' = [trace EXCEPT ![w] = Append(@, "hit")]
       ELSE /\ pc' = [pc EXCEPT ![w] = "fetch"]
            /\ trace' = [trace EXCEPT ![w] = Append(@, "miss")]
    /\ UNCHANGED <<VOICE_CACHE, files, engineVars, job, response, voice_path, wav,
                   resp, exc, cache0, prev, started, counterVars>>

\* lines 65-72: the extension of the scratch file
Extension(content_type, url) ==
    IF Contains(content_type, Mp3)
       \/ EndsWith(BeforeQuery(Lower(url)), <<".","m","p","3">>)
    THEN <<".","m","p","3">>
    ELSE IF Contains(content_type, Wav)
            \/ EndsWith(BeforeQuery(Lower(url)), <<".","w","a","v">>)
         THEN <<".","w","a","v">>
         ELSE <<".","m","p","3">>

\* line 75: a fresh scratch-file name
NewPath(ext) == [id |-> Cardinality(files) + 1, ext |-> ext]

\* a fetch that never checks the status
RaisesForStatusNever(status_code) == FALSE

\* line 63: response.raise_for_status() raises on a status that is not 2xx
RaisesForStatus(status_code) == status_code # HttpOk

\* lines 61-79: download the reference and save it to a scratch file
Fetch(w) ==
    /\ pc[w] = "fetch"
    /\ LET url == audio_url(w).s IN
       /\ fetchCount' = [fetchCount EXCEPT ![url] = @ + 1]
       /\ trace' = [trace EXCEPT ![w] = Append(@, "fetch")]
       /\ \/ /\ Caught(w, "ConnectionError")
             /\ UNCHANGED <<files, response, voice_path>>
          \/ \E status_code \in Statuses, content_type \in ContentTypes :
                /\ response' = [response EXCEPT ![w] =
                      [status_code |-> status_code,
                       content_type |-> content_type]]
                /\ IF RaisesForStatus(status_code)
                   THEN /\ Caught(w, "HTTPError")
                        /\ UNCHANGED <<files, voice_path>>
                   ELSE LET p == NewPath(Extension(content_type, url)) IN
                        /\ files' = files \cup {p}
                        /\ \/ /\ voice_path' = [voice_path EXCEPT ![w] = p]
                              /\ pc' = [pc EXCEPT ![w] = "prepare"]
                              /\ UNCHANGED resp
                           \/ /\ Caught(w, "OSError")
                              /\ UNCHANGED voice_path
    /\ UNCHANGED <<VOICE_CACHE, engineVars, job, wav, exc, cache0, prev,
                   started, prepCount, prepOk, genCount>>

\* a preparation that keeps a voice prepared earlier
EnginePrepareFirstWins(c, url, e) ==
    IF c.voice = DefaultVoice THEN [voice |-> url, exaggeration |-> e] ELSE c

\* model.prepare_conditionals(voice_path, exaggeration): the engine's one
\* conditioning slot now holds the voice of the reference, whichever voice
\* it held before
EnginePrepare(c, url, e) == [voice |-> url, exaggeration |-> e]

\* CachePut that forgets to record the url
CachePutDropped(cache, url, p) == cache

\* CachePut into a cache of one slot: the new entry evicts the others
CachePutSingleSlot(cache, url, p) == [u \in {url} |-> p]

\* CachePut as setdefault: an entry already there is kept
CachePutKeepFirst(cache, url, p) ==
    IF url \in DOMAIN cache THEN cache
    ELSE [u \in DOMAIN cache \cup {url} |-> IF u = url THEN p ELSE cache[u]]

\* line 87: VOICE_CACHE[url] = voice_path
CachePut(cache, url, p) ==
    [u \in DOMAIN cache \cup {url} |-> IF u = url THEN p ELSE cache[u]]

\* a get_voice_ref that records the url before it prepares the
\* conditionals: the entry stays when the preparation raises
PrepareRecordsFirst(w) ==
    /\ pc[w] = "prepare"
    /\ LET url == audio_url(w).s IN
       /\ prepCount' = [prepCount EXCEPT ![url] = @ + 1]
       /\ trace' = [trace EXCEPT ![w] = Append(@, "prepare")]
       /\ VOICE_CACHE' = CachePut(VOICE_CACHE, url, voice_path[w])
       /\ \/ /\ conds' = EnginePrepare(conds, url, exaggeration(w))
             /\ prepOk' = [prepOk EXCEPT ![url] = @ + 1]
             /\ pc' = [pc EXCEPT ![w] = "generate"]
             /\ UNCHANGED resp
          \/ /\ Caught(w, "PrepareError")
             /\ UNCHANGED <<conds, prepOk>>
    /\ UNCHANGED <<MODEL, loadCount, files, job, response, voice_path, wav, exc, cache0,
                   prev, started, fetchCount, genCount>>

\* lines 81-87: prepare the conditionals, then record the url
Prepare(w) ==
    /\ pc[w] = "prepare"
    /\ LET url == audio_url(w).s IN
       /\ prepCount' = [prepCount EXCEPT ![url] = @ + 1]
       /\ trace' = [trace EXCEPT ![w] = Append(@, "prepare")]
       /\ \/ /\ conds' = EnginePrepare(conds, url, exaggeration(w))
             /\ VOICE_CACHE' = CachePut(VOICE_CACHE, url, voice_path[w])
             /\ prepOk' = [prepOk EXCEPT ![url] = @ + 1]
             /\ pc' = [pc EXCEPT ![w] = "generate"]
             /\ UNCHANGED resp
          \/ /\ Caught(w, "PrepareError")
             /\ UNCHANGED <<conds, VOICE_CACHE, prepOk>>
    /\ UNCHANGED <<MODEL, loadCount, files, job, response, voice_path, wav, exc, cache0,
                   prev, started, fetchCount, genCount>>

\* model.generate(text, exaggeration=, temperature=, cfg_weight=) without an
\* audio_prompt_path: the waveform speaks with the voice in self.conds
EngineGenerate(c, t, e, temp, cfgw) ==
    [voice |-> c.voice, text |-> t, exaggeration |-> e,
     temperature |-> temp, cfg_weight |-> cfgw]

\* lines 120-132: both branches make the same generate call
Generate(w) ==
    /\ pc[w] = "generate"
    /\ genCount' = genCount + 1
    /\ trace' = [trace EXCEPT ![w] = Append(@, "generate")]
    /\ \/ /\ wav' = [wav EXCEPT ![w] =
                       EngineGenerate(conds, text(w).s, exaggeration(w),
                                      temperature(w), cfg_weight(w))]
          /\ pc' = [pc EXCEPT ![w] = "encode"]
          /\ UNCHANGED resp
       \/ /\ Caught(w, "GenerateError")
          /\ UNCHANGED wav
    /\ UNCHANGED <<VOICE_CACHE, files, engineVars, job, response, voice_path, exc,
                   cache0, prev, started, fetchCount, prepCount, prepOk>>

\* lines 135-137: ta.save(..., format="wav")
WavContainer(audio, sr) == [container |-> Wav, audio |-> audio, sr |-> sr]
\* lines 140-143: AudioSegment.from_wav(...).export(format="mp3", bitrate="192k")
Mp3Container(wavfile) ==
    [container |-> Mp3, audio |-> wavfile.audio, sr |-> wavfile.sr]
\* base64.b64encode(...).decode("utf-8")
B64(bytes) == [b64 |-> bytes]

\* lines 139-146: the payload of the response
Payload(audio, fmt) ==
    IF fmt = Mp3
    THEN B64(Mp3Container(WavContainer(audio, EngineSR)))
    ELSE B64(WavContainer(audio, EngineSR))

\* a response that reports the container rather than the requested format
ResponseContainerName(audio, fmt) ==
    [audio_base64 |-> Payload(audio, fmt),
     format |-> IF fmt = Mp3 THEN Mp3 ELSE Wav,
     sample_rate |-> EngineSR]

\* lines 150-154: the success response
Response(audio, fmt) ==
    [audio_base64 |-> Payload(audio, fmt), format |-> fmt,
     sample_rate |-> EngineSR]

\* lines 134-154: encode the waveform and return the response
Encode(w) ==
    /\ pc[w] = "encode"
    /\ trace' = [trace EXCEPT ![w] = Append(@, "encode")]
    /\ \/ /\ resp' = [resp EXCEPT ![w] = Response(wav[w], output_format(w))]
          /\ pc' = [pc EXCEPT ![w] = "done"]
       \/ Caught(w, "EncodeError")
    /\ UNCHANGED <<VOICE_CACHE, files, engineVars, job, response, voice_path, wav,
                   exc, cache0, prev, started, counterVars>>

\* one step of the request in slot w
Step(w) ==
    \/ LoadModel(w)
    \/ ResolveVoice(w)
    \/ Fetch(w)
    \/ Prepare(w)
    \/ Generate(w)
    \/ Encode(w)

\* the host framework handles one job at a time: a job starts only when
\* the one before it has returned or raised
Next ==
    \/ \E j \in JobInputs : Start(1, j)
    \/ Step(1)

Spec == Init /\ [][Next]_vars

\* the jobs of the concurrent dispatch: a text and a voice url
ConcurrentJobInputs ==
    {j \in JobInputs :
        /\ Truthy(j.text) /\ Truthy(j.audio_url)
        /\ \A k \in Tuning : j[k] = Absent}

\* a threaded or async host: both slots take jobs and their steps
\* interleave; nothing in handler.py locks MODEL, self.conds or VOICE_CACHE
NextConcurrent ==
    \E w \in Workers :
        \/ /\ started < MaxConcurrentJobs
           /\ \E j \in ConcurrentJobInputs : Start(w, j)
        \/ Step(w)

SpecConcurrent == Init /\ [][NextConcurrent]_vars

\* ----------------------------------------------------------- helpers
Range(q) == {q[i] : i \in DOMAIN q}
Count(q, x) == Cardinality({i \in DOMAIN q : q[i] = x})
IsError(r) == DOMAIN r = {"error"}
IsSuccess(r) == "audio_base64" \in DOMAIN r
Returned(w) == pc[w] = "done"

\* ------------------------------------------------------------------ C1
\* C1: a request whose text is missing or empty returns an error response
\* with no audio, and makes no engine call (no model load, no
\* prepare_conditionals, no generate), no fetch, and leaves VOICE_CACHE as
\* it was when the request started.
C1_EmptyTextRejected ==
    \A w \in Workers :
        (pc[w] # "idle" /\ job[w].text \in {Absent, Str(<<>>)}) =>
            /\ Returned(w)
            /\ IsError(resp[w])
            /\ trace[w] = <<>>
            /\ VOICE_CACHE = cache0[w]
            /\ wav[w] = NoWav

\* an empty-text request arrives at a process that has a loaded engine and
\* a cached voice
C1_Witness ==
    /\ Returned(1)
    /\ job[1].text = Str(<<>>)
    /\ Truthy(job[1].audio_url)
    /\ MODEL # 0
    /\ DOMAIN VOICE_CACHE # {}

\* ------------------------------------------------------------------ C2
\* C2: when a request for a url follows a request for the same url that
\* got its voice ready, its get_voice_ref call is a cache hit that neither
\* fetches nor prepares; and when these are the first two requests of the
\* process and both reach generate, the url was fetched once and prepared
\* once in total and generate was called twice.
C2_SecondRequestIsHit ==
    (/\ started >= 2
     /\ Truthy(text(1))
     /\ Truthy(audio_url(1))
     /\ prev.audio_url = audio_url(1)
     /\ "generate" \in Range(prev.trace)
     /\ pc[1] \notin {"load_model", "voice", "raised"}) =>
        /\ trace[1][1] = "hit"
        /\ Range(trace[1]) \cap {"miss", "fetch", "prepare"} = {}
        /\ (started = 2 /\ "generate" \in Range(trace[1])) =>
              /\ fetchCount[audio_url(1).s] = 1
              /\ prepCount[audio_url(1).s] = 1
              /\ genCount = 2

\* the second of two requests for UrlA has called generate
C2_Witness ==
    /\ started = 2
    /\ audio_url(1) = Str(UrlA)
    /\ prev.audio_url = Str(UrlA)
    /\ prev.status = "ok"
    /\ Returned(1) /\ IsSuccess(resp[1])
    /\ trace[1] = <<"hit", "generate", "encode">>

\* ------------------------------------------------------------------ C3
\* C3 as stated: prepare_conditionals is called at most once for each url,
\* also when fetches or preparations fail.
C3_PreparedAtMostOnce == \A u \in Urls : prepCount[u] <= 1

\* C3 as amended: prepare_conditionals returns successfully at most once
\* for each url, and is not called again for a url once it has returned
\* for it; it is called again only after a call for that url failed.
C3_NoPrepareAfterSuccess ==
    [][\A u \in Urls :
          /\ prepOk'[u] <= 1
          /\ prepOk[u] >= 1 => prepCount'[u] = prepCount[u]]_vars

\* a preparation of UrlA failed, the next one succeeded, and a later
\* request for UrlA is served from the cache
C3_Witness ==
    /\ prepCount[UrlA] = 2
    /\ prepOk[UrlA] = 1
    /\ audio_url(1) = Str(UrlA)
    /\ trace[1] = <<"hit", "generate">>

\* ------------------------------------------------------------------ C4
\* C4: whenever handler has called generate for a request that carries an
\* audio_url, the waveform was generated with the conditioning prepared
\* from that request's url.
C4_GenerateUsesRequestedVoice ==
    \A w \in Workers :
        (pc[w] = "encode" /\ Truthy(audio_url(w))) =>
            wav[w].voice = audio_url(w).s

\* ------------------------------------------------------------------ C5
\* C5: when a request for one url follows a request for a different url,
\* both cache misses whose fetch and preparation succeed, each request
\* calls prepare_conditionals exactly once and afterwards the engine holds
\* the conditioning of the second url; when they are the first two requests
\* of the process, each url has been prepared exactly once in total.
C5_LastPreparedVoiceWins ==
    (/\ started >= 2
     /\ Truthy(text(1))
     /\ Truthy(audio_url(1)) /\ Truthy(prev.audio_url)
     /\ prev.audio_url # audio_url(1)
     /\ {"miss", "generate"} \subseteq Range(prev.trace)
     /\ {"miss", "generate"} \subseteq Range(trace[1])) =>
        /\ Count(prev.trace, "prepare") = 1
        /\ Count(trace[1], "prepare") = 1
        /\ conds.voice = audio_url(1).s
        /\ started = 2 =>
              /\ prepCount[prev.audio_url.s] = 1
              /\ prepCount[audio_url(1).s] = 1

\* UrlA was prepared by the first request and UrlB by the second
C5_Witness ==
    /\ started = 2
    /\ prev.audio_url = Str(UrlA)
    /\ audio_url(1) = Str(UrlB)
    /\ prev.status = "ok"
    /\ Returned(1) /\ IsSuccess(resp[1])
    /\ conds.voice = UrlB
    /\ DOMAIN VOICE_CACHE = {UrlA, UrlB}

\* ------------------------------------------------------------------ C6
\* C6: when the fetch of a request's audio_url fails (no answer, or an
\* answer whose status is not 200), handler returns {error: message of the
\* failure}, VOICE_CACHE is as it was when the request started and has no
\* entry for the url, and neither prepare_conditionals nor generate is
\* called for the request; the next request, when it is for the same url,
\* is a cache miss again.
FetchFailed(w) ==
    /\ pc[w] \notin {"idle", "fetch"}
    /\ "fetch" \in Range(trace[w])
    /\ response[w].status_code # HttpOk

C6_FetchFailureLeavesNoEntry ==
    /\ \A w \in Workers :
          FetchFailed(w) =>
             /\ Returned(w)
             /\ IsError(resp[w])
             /\ resp[w].error =
                   (IF response[w] = NoResponse THEN "ConnectionError"
                                                ELSE "HTTPError")
             /\ Range(trace[w]) \cap {"prepare", "generate"} = {}
             /\ VOICE_CACHE = cache0[w]
             /\ audio_url(w).s \notin DOMAIN VOICE_CACHE
             /\ voice_path[w] = NoPath
    /\ (/\ prev.status = "error"
        /\ prev.trace # <<>>
        /\ prev.trace[Len(prev.trace)] = "fetch"
        /\ audio_url(1) = prev.audio_url
        /\ Truthy(text(1))
        /\ pc[1] \notin {"load_model", "voice", "raised"}) =>
           /\ "miss" \in Range(trace[1])
           /\ "hit" \notin Range(trace[1])

\* the server answered 404 for UrlA while UrlB was cached, and the next
\* request for UrlA has fetched again
C6_Witness ==
    /\ prev.audio_url = Str(UrlA)
    /\ prev.status = "error"
    /\ prev.trace = <<"miss", "fetch">>
    /\ audio_url(1) = Str(UrlA)
    /\ response[1].status_code = HttpNotFound
    /\ Returned(1)
    /\ DOMAIN VOICE_CACHE = {UrlB}

\* ------------------------------------------------------------------ C7
\* C7: every failure after text validation is returned as {error: message};
\* no exception ever leaves handler.
C7_NoFailureEscapes == \A w \in Workers : pc[w] # "raised"

\* ------------------------------------------------------------------ C8
\* C8: for a request with no audio_url, whatever came before, generate
\* speaks with the default voice the engine was initialized with, and the
\* request performs no fetch and no prepare_conditionals call and leaves
\* VOICE_CACHE unchanged.
C8_NoUrlUsesDefaultVoice ==
    \A w \in Workers :
        (pc[w] \notin {"idle", "raised"} /\ ~Truthy(audio_url(w))) =>
            /\ Range(trace[w]) \cap {"fetch", "prepare"} = {}
            /\ VOICE_CACHE = cache0[w]
            /\ pc[w] = "encode" => wav[w].voice = DefaultVoice

\* ------------------------------------------------------------------ C9
\* C9: VOICE_CACHE is write-once and grow-only: a step never removes an
\* entry or changes its path, and an entry appears only in the step in
\* which prepare_conditionals returns for its url for the first time.
C9_CacheWriteOnce ==
    [][/\ \A u \in DOMAIN VOICE_CACHE :
             /\ u \in DOMAIN VOICE_CACHE'
             /\ VOICE_CACHE'[u] = VOICE_CACHE[u]
       /\ \A u \in DOMAIN VOICE_CACHE' \ DOMAIN VOICE_CACHE :
             /\ prepOk[u] = 0 /\ prepOk'[u] = 1
             /\ VOICE_CACHE'[u] \in files]_vars

\* UrlA was cached by the first request, UrlB by the second, and the third
\* request is served UrlA from the cache
C9_Witness ==
    /\ started = 3
    /\ DOMAIN VOICE_CACHE = {UrlA, UrlB}
    /\ VOICE_CACHE[UrlA].id = 1
    /\ VOICE_CACHE[UrlB].id = 2
    /\ audio_url(1) = Str(UrlA)
    /\ "hit" \in Range(trace[1])
    /\ Returned(1)

\* ----------------------------------------------------------------- C10
\* the output_format field as the request carries it ("wav" when omitted)
RequestedFormat(w) == Get(job[w], "output_format", Str(DefaultFormat)).s

\* C10 as stated: a successful response has exactly the fields
\* audio_base64, format and sample_rate, format is the request's
\* output_format ("wav" when omitted) and sample_rate the engine's rate.
C10_FormatIsRequestedFormat ==
    \A w \in Workers :
        (Returned(w) /\ ~IsError(resp[w])) =>
            /\ DOMAIN resp[w] = {"audio_base64", "format", "sample_rate"}
            /\ resp[w].format = RequestedFormat(w)
            /\ resp[w].sample_rate = EngineSR

\* C10 as amended: a successful response has exactly the fields
\* audio_base64, format and sample_rate, format is the request's
\* output_format in lower case ("wav" when omitted) and sample_rate the
\* engine's rate, with or without an audio_url.
C10_FormatIsLowerCasedFormat ==
    \A w \in Workers :
        (Returned(w) /\ ~IsError(resp[w])) =>
            /\ DOMAIN resp[w] = {"audio_base64", "format", "sample_rate"}
            /\ resp[w].format = Lower(RequestedFormat(w))
            /\ resp[w].sample_rate = EngineSR

\* a request for "ogg" with a voice url was answered
C10_Witness ==
    /\ Returned(1) /\ IsSuccess(resp[1])
    /\ job[1].output_format = Str(<<"o","g","g">>)
    /\ Truthy(audio_url(1))
    /\ resp[1].format = <<"o","g","g">>

\* ----------------------------------------------------------------- C11
\* the format a content-type header names, <<>> when it names none
HeaderFormat(content_type) ==
    IF Contains(content_type, Mp3) THEN <<".","m","p","3">>
    ELSE IF Contains(content_type, Wav) THEN <<".","w","a","v">>
    ELSE <<>>

\* the format the url's suffix names (query string stripped), <<>> when none
SuffixFormat(url) ==
    IF EndsWith(BeforeQuery(Lower(url)), <<".","m","p","3">>)
    THEN <<".","m","p","3">>
    ELSE IF EndsWith(BeforeQuery(Lower(url)), <<".","w","a","v">>)
         THEN <<".","w","a","v">>
         ELSE <<>>

\* C11: the extension of every scratch file follows a strict priority: the
\* format the content-type header names, else the format the url's suffix
\* names, else .mp3.
C11_HeaderThenSuffixThenDefault ==
    \A w \in Workers :
        voice_path[w] # NoPath =>
            voice_path[w].ext =
                (IF HeaderFormat(response[w].content_type) # <<>>
                 THEN HeaderFormat(response[w].content_type)
                 ELSE IF SuffixFormat(audio_url(w).s) # <<>>
                      THEN SuffixFormat(audio_url(w).s)
                      ELSE <<".","m","p","3">>)

\* ----------------------------------------------------------------- C12
\* C12: for a url already in VOICE_CACHE the get_voice_ref call is a no-op
\* whatever the exaggeration: the request goes on to generate, and the
\* call leaves VOICE_CACHE, the engine's conditioning, the scratch files
\* and the fetch and preparation counts as they were.
C12_CacheHitIsNoOp ==
    [][\A w \in Workers :
          (/\ pc[w] = "voice" /\ pc'[w] # "voice"
           /\ Truthy(audio_url(w))
           /\ audio_url(w).s \in DOMAIN VOICE_CACHE) =>
              /\ pc'[w] = "generate"
              /\ UNCHANGED <<VOICE_CACHE, conds, files, voice_path,
                             fetchCount, prepCount, prepOk>>]_vars

\* a cache hit for UrlA, whose conditioning was prepared with another
\* exaggeration than this request asks for
C12_Witness ==
    /\ pc[1] = "generate"
    /\ audio_url(1) = Str(UrlA)
    /\ trace[1] = <<"hit">>
    /\ conds.voice = UrlA
    /\ exaggeration(1) = 7
    /\ conds.exaggeration = DefaultExaggeration

\* ----------------------------------------------------------------- C13
\* every b in q comes after an a
Precedes(q, a, b) ==
    \A j \in DOMAIN q : q[j] = b => \E i \in 1..(j - 1) : q[i] = a

\* the request in slot w ended because prepare_conditionals raised
PrepareFailed(w) ==
    /\ Returned(w)
    /\ trace[w] # <<>>
    /\ trace[w][Len(trace[w])] = "prepare"

\* C13: on a cache miss the request fetches, then prepares, then records
\* the url: a preparation comes after the fetch, a url this request added
\* to VOICE_CACHE was fetched and prepared by it before, and when
\* prepare_conditionals fails the url is not in VOICE_CACHE, generate is
\* not called and the response is the error.
C13_RecordedAfterFetchAndPrepare ==
    \A w \in Workers :
        /\ Precedes(trace[w], "miss", "fetch")
        /\ Precedes(trace[w], "fetch", "prepare")
        /\ Precedes(trace[w], "prepare", "generate") \/ "miss" \notin Range(trace[w])
        /\ (/\ pc[w] # "idle" /\ Truthy(text(w)) /\ Truthy(audio_url(w))
            /\ audio_url(w).s \in DOMAIN VOICE_CACHE
            /\ audio_url(w).s \notin DOMAIN cache0[w]) =>
               /\ {"fetch", "prepare"} \subseteq Range(trace[w])
               /\ prepOk[audio_url(w).s] = 1
               /\ VOICE_CACHE[audio_url(w).s] = voice_path[w]
               /\ ~PrepareFailed(w)
        /\ PrepareFailed(w) =>
               /\ IsError(resp[w])
               /\ resp[w].error = "PrepareError"
               /\ audio_url(w).s \notin DOMAIN VOICE_CACHE
               /\ VOICE_CACHE = cache0[w]
               /\ "generate" \notin Range(trace[w])

\* the preparation of UrlB failed while UrlA was cached
C13_Witness ==
    /\ PrepareFailed(1)
    /\ audio_url(1) = Str(UrlB)
    /\ trace[1] = <<"miss", "fetch", "prepare">>
    /\ voice_path[1] \in files
    /\ DOMAIN VOICE_CACHE = {UrlA}

\* ----------------------------------------------------------------- C14
\* C14: with two requests in flight nothing orders their preparations:
\* every preparation that returns overwrites the engine's one conditioning
\* with its own url's voice and records its url, whatever the other request
\* prepared or is about to generate with (the last writer wins).  The
\* witness is the interleaving of the claim.
C14_LastPreparationWins ==
    [][\A w \in Workers :
          (pc[w] = "prepare" /\ pc'[w] = "generate") =>
              /\ conds'.voice = audio_url(w).s
              /\ conds'.exaggeration = exaggeration(w)
              /\ audio_url(w).s \in DOMAIN VOICE_CACHE']_vars

\* both requests missed, UrlA was prepared, then UrlB, and the request for
\* UrlA generated with UrlB's voice; both urls are recorded
C14_Witness ==
    /\ audio_url(1) = Str(UrlA) /\ audio_url(2) = Str(UrlB)
    /\ "miss" \in Range(trace[1]) /\ "miss" \in Range(trace[2])
    /\ prepOk[UrlA] = 1 /\ prepOk[UrlB] = 1
    /\ conds.voice = UrlB
    /\ pc[1] = "encode"
    /\ wav[1].voice = UrlB
    /\ DOMAIN VOICE_CACHE = {UrlA, UrlB}

\* ----------------------------------------------------------------- C15
\* C15: get_voice_ref does not keep the first entry of a url: every
\* preparation that returns stores its own scratch-file path under its url,
\* also when another request recorded the url since this one looked it up.
\* The witness is the interleaving of the claim.
C15_LastWriterOwnsEntry ==
    [][\A w \in Workers :
          (pc[w] = "prepare" /\ pc'[w] = "generate") =>
              VOICE_CACHE'[audio_url(w).s] = voice_path[w]]_vars

\* both requests for UrlA passed the lookup, each fetched and prepared, and
\* the entry written first was overwritten by the second writer
C15_Witness ==
    /\ audio_url(1) = Str(UrlA) /\ audio_url(2) = Str(UrlA)
    /\ "miss" \in Range(trace[1]) /\ "miss" \in Range(trace[2])
    /\ fetchCount[UrlA] = 2
    /\ prepCount[UrlA] = 2 /\ prepOk[UrlA] = 2
    /\ voice_path[1] # voice_path[2]
    /\ {voice_path[1], voice_path[2]} \subseteq files
    /\ VOICE_CACHE[UrlA] = voice_path[2]
    /\ pc[1] = "generate"

\* ----------------------------------------------------------------- C16
\* C16: every request ends with handler returning exactly one response,
\* either the success shape or the error shape and never both, and within
\* one request fetch, prepare_conditionals and generate are each called at
\* most once, in that order.
C16_OneResponseLinearPipeline ==
    \A w \in Workers :
        /\ pc[w] # "raised"
        /\ Returned(w) => (IsError(resp[w]) /\ ~IsSuccess(resp[w]))
                          \/ (IsSuccess(resp[w]) /\ "error" \notin DOMAIN resp[w])
        /\ ~Returned(w) => resp[w] = NoResp \/ pc[w] = "idle"
        /\ \A c \in {"fetch", "prepare", "generate"} : Count(trace[w], c) <= 1
        /\ Precedes(trace[w], "fetch", "prepare")
        /\ \A i, k \in DOMAIN trace[w] :
              (trace[w][i] = "generate" /\ trace[w][k] \in {"fetch", "prepare"})
                  => k < i

\* the parts of C16 that do not depend on the request returning: at most
\* one fetch, one preparation and one generate call per request, in that
\* order, and a response that is never both shapes
C16_PipelineOrder ==
    \A w \in Workers :
        /\ Returned(w) => (IsError(resp[w]) /\ ~IsSuccess(resp[w]))
                          \/ (IsSuccess(resp[w]) /\ "error" \notin DOMAIN resp[w])
        /\ \A c \in {"fetch", "prepare", "generate"} : Count(trace[w], c) <= 1
        /\ Precedes(trace[w], "fetch", "prepare")
        /\ \A i, k \in DOMAIN trace[w] :
              (trace[w][i] = "generate" /\ trace[w][k] \in {"fetch", "prepare"})
                  => k < i

\* ----------------------------------------------------------------- C17
\* C17: in every successful response format is "wav" or "mp3" and names
\* the container audio_base64 is encoded in: the MP3 re-encoding of the
\* intermediate WAV exactly when format is "mp3", the WAV itself exactly
\* when format is "wav".
C17_FormatNamesContainer ==
    \A w \in Workers :
        (Returned(w) /\ IsSuccess(resp[w])) =>
            /\ resp[w].format \in {Wav, Mp3}
            /\ resp[w].audio_base64.b64.container = resp[w].format
            /\ resp[w].audio_base64 =
                  (IF resp[w].format = Mp3
                   THEN B64(Mp3Container(WavContainer(wav[w], EngineSR)))
                   ELSE B64(WavContainer(wav[w], EngineSR)))

\* ----------------------------------------------------------------- C18
\* C18 as stated: the engine is constructed the first time a request
\* passes text validation: once such a request has gone past load_model
\* (or has ended), MODEL is set.
C18_LoadedByFirstValidRequest ==
    \A w \in Workers :
        (pc[w] \notin {"idle", "load_model"} /\ Truthy(text(w))) => MODEL # 0

\* C18 as amended: load_model is idempotent: a request that reaches
\* load_model while MODEL is unset calls from_pretrained once, a request
\* stands past load_model only with MODEL set, and once MODEL is set no
\* step changes it or calls from_pretrained again, so the engine is
\* constructed successfully at most once.
C18_LoadedOnceThenKept ==
    [][/\ MODEL # 0 => (MODEL' = MODEL /\ loadCount' = loadCount)
       /\ \A w \in Workers :
             /\ (pc[w] = "load_model" /\ pc'[w] # "load_model" /\ MODEL = 0)
                   => loadCount' = loadCount + 1
             /\ pc'[w] \in {"voice", "fetch", "prepare", "generate", "encode"}
                   => MODEL' # 0]_vars

\* the first from_pretrained call failed, the second request loaded the
\* engine, and the third went through load_model without loading
C18_Witness ==
    /\ started = 3
    /\ loadCount = 2
    /\ MODEL = 2
    /\ pc[1] = "voice"
    /\ trace[1] = <<>>

\* ----------------------------------------------------------------- C19
\* no request is in flight
Quiescent == \A w \in Workers : pc[w] \in {"idle", "done", "raised"}

\* C19: after any sequence of requests every scratch file created so far
\* is the stored path of exactly one VOICE_CACHE entry: no scratch file is
\* without an entry, every entry's path is a scratch file, and no two urls
\* share a path.
C19_EveryScratchFileOwned ==
    Quiescent =>
        /\ files = {VOICE_CACHE[u] : u \in DOMAIN VOICE_CACHE}
        /\ \A u, v \in DOMAIN VOICE_CACHE :
              VOICE_CACHE[u] = VOICE_CACHE[v] => u = v

\* the part of C19 the code keeps: scratch files are never deleted, every
\* entry's path is a scratch file of its own
C19_FilesOnlyGrow ==
    [][/\ files \subseteq files'
       /\ \A u \in DOMAIN VOICE_CACHE' : VOICE_CACHE'[u] \in files'
       /\ \A u, v \in DOMAIN VOICE_CACHE' :
             VOICE_CACHE'[u] = VOICE_CACHE'[v] => u = v]_vars

====
